---- MODULE Spec2Model ----
(***************************************************************************)
(* Height-indexed storage (Blocks and Receipts over an ordered key-value   *)
(* store) and the cross-spork router of flow-evm-gateway.                  *)
(*                                                                         *)
(* uint64 heights are modelled with a narrow unsigned type 0..MaxUint      *)
(* (arithmetic wraps modulo MaxUint+1) and their big-endian byte encoding  *)
(* by a fixed-width big-endian digit string, so that byte order and        *)
(* numeric order can be compared.  Every write call consumes one unit of   *)
(* the budget MaxOps; reads are free.                                      *)
(***************************************************************************)
EXTENDS Integers, Sequences, FiniteSets, TLC

\* largest value of the unsigned height type (2^64-1 in the code)
MaxUint == 2
\* number of write calls (NewBlocks, Store, Receipts.Store, Commit, AddSpork) explored
MaxOps == 2

Heights == 0..MaxUint
\* host (cadence) heights handed to Blocks.Store
CadenceHeights == {1, 2}
\* stands for the block contents besides its height
Tags == {1, 2}
Blocks == [Height : Heights, Tag : Tags]
\* goroutines calling the block index concurrently
Threads == {1, 2}

\* error values
Nil == "nil"
NotFound == "NotFound"
NotInitialized == "NotInitialized"
Internal == "Internal"

\* one-byte key codes of the logical indexes
blockHeightKey == "blockHeightKey"
blockIDToHeightKey == "blockIDToHeightKey"
evmHeightToCadenceHeightKey == "evmHeightToCadenceHeightKey"
latestEVMHeightKey == "latestEVMHeightKey"
firstEVMHeightKey == "firstEVMHeightKey"
receiptTxIDToHeightKey == "receiptTxIDToHeightKey"
receiptHeightKey == "receiptHeightKey"
bloomHeightKey == "bloomHeightKey"

VARIABLES
    db,           \* the committed key-value store: <<code, key bytes>> -> value
    heightCache,  \* Blocks.heightCache: key code -> height, 0 when absent
    batch,        \* writes set on the pending pebble.Batch, in order
    sporks,       \* the router's boundaries: lastHeight -> endpoint
    lastCall,     \* the last write call: its name, arguments and returned error
    nOps,         \* write calls made so far
    mux,          \* Blocks.mux: active readers, the writer holding it, waiting writers
    pc            \* per concurrent caller: the call it is in and its next step

vars == <<db, heightCache, batch, sporks, lastCall, nOps, mux, pc>>

Call(op, arg, err) == [op |-> op, arg |-> arg, err |-> err]

\* sync.RWMutex with nobody holding or waiting for it
Unlocked == [readers |-> 0, writer |-> 0, pending |-> {}]
\* a caller outside every call
Idle == [at |-> "idle", op |-> "none", key |-> "none", val |-> 0, err |-> Nil, arg |-> <<>>]

----------------------------------------------------------------------------
(* Key encoding *)

\* number of big-endian digits of a height (8 bytes in the code)
Width == CHOOSE w \in 1..8 : 2^w > MaxUint /\ \A v \in 1..(w - 1) : 2^v <= MaxUint

\* uint64Bytes: fixed-width big-endian encoding, most significant digit first
uint64Bytes(h) == [i \in 1..Width |-> (h \div (2^(Width - i))) % 2]

RECURSIVE Uint64(_)
\* binary.BigEndian.Uint64
Uint64(bytes) ==
    IF bytes = <<>> THEN 0
    ELSE Uint64(SubSeq(bytes, 1, Len(bytes) - 1)) * 2 + bytes[Len(bytes)]

\* makePrefix: the code byte followed by the key bytes (nil key: <<>>)
makePrefix(code, key) == <<code, key>>

\* byte-lexicographic order of two equally long byte strings
BytesLess(a, b) ==
    \E i \in 1..Len(a) : a[i] < b[i] /\ \A j \in 1..(i - 1) : a[j] = b[j]

----------------------------------------------------------------------------
(* Storage: get returns the value or NotFound; set writes one key *)

get(code, key) ==
    IF makePrefix(code, key) \in DOMAIN db
    THEN [err |-> Nil, val |-> db[makePrefix(code, key)]]
    ELSE [err |-> NotFound, val |-> <<>>]

Put(d, k, v) == [x \in DOMAIN d \cup {k} |-> IF x = k THEN v ELSE d[x]]

\* set without a batch: one committed write
set(d, code, key, value) == Put(d, makePrefix(code, key), value)

----------------------------------------------------------------------------
(* types.Block: serialisation and hash *)

ToBytes(block) == <<block.Height, block.Tag>>
NewBlockFromBytes(data) == [Height |-> data[1], Tag |-> data[2]]
\* the block id as bytes: distinct blocks have distinct ids
Hash(block) == <<block.Height * (MaxUint + 1) + block.Tag>>

----------------------------------------------------------------------------
(* Blocks *)

EmptyCache == [c \in {latestEVMHeightKey, firstEVMHeightKey} |-> 0]

\* a getHeight that passes the store's NotFound on
getHeightNotFound(cache, keyCode) ==
    IF cache[keyCode] # 0
    THEN [err |-> Nil, val |-> cache[keyCode], cache |-> cache]
    ELSE IF get(keyCode, <<>>).err = NotFound
    THEN [err |-> NotFound, val |-> 0, cache |-> cache]
    ELSE LET h == Uint64(get(keyCode, <<>>).val)
         IN [err |-> Nil, val |-> h, cache |-> [cache EXCEPT ![keyCode] = h]]

\* getHeight: the cached value when it is not 0, else the persisted one (which is
\* then cached), else NotInitialized
getHeight(cache, keyCode) ==
    IF cache[keyCode] # 0
    THEN [err |-> Nil, val |-> cache[keyCode], cache |-> cache]
    ELSE IF get(keyCode, <<>>).err = NotFound
    THEN [err |-> NotInitialized, val |-> 0, cache |-> cache]
    ELSE LET h == Uint64(get(keyCode, <<>>).val)
         IN [err |-> Nil, val |-> h, cache |-> [cache EXCEPT ![keyCode] = h]]

LatestEVMHeight == getHeight(heightCache, latestEVMHeightKey)
FirstEVMHeight == getHeight(heightCache, firstEVMHeightKey)

getBlock(keyCode, key) ==
    LET r == get(keyCode, key)
    IN IF r.err # Nil THEN [err |-> r.err, val |-> <<>>]
       ELSE [err |-> Nil, val |-> NewBlockFromBytes(r.val)]

\* a bounds test that forgets the lower bound
OutOfRangeUpperOnly(height, first, last) == height > last

\* the bounds test of GetByHeight
OutOfRange(height, first, last) == height < first \/ height > last

GetByHeight(height) ==
    LET f == getHeight(heightCache, firstEVMHeightKey)
        l == getHeight(f.cache, latestEVMHeightKey)
    IN IF f.err # Nil THEN [err |-> f.err, val |-> <<>>, cache |-> f.cache]
       ELSE IF l.err # Nil THEN [err |-> l.err, val |-> <<>>, cache |-> l.cache]
       ELSE IF OutOfRange(height, f.val, l.val)
       THEN [err |-> NotFound, val |-> <<>>, cache |-> l.cache]
       ELSE [err |-> getBlock(blockHeightKey, uint64Bytes(height)).err,
             val |-> getBlock(blockHeightKey, uint64Bytes(height)).val,
             cache |-> l.cache]

\* a lookup by id that goes through the bounds check of GetByHeight
GetByIDRangeChecked(ID) ==
    LET r == get(blockIDToHeightKey, ID)
    IN IF r.err # Nil THEN [err |-> r.err, val |-> <<>>]
       ELSE [err |-> GetByHeight(Uint64(r.val)).err, val |-> GetByHeight(Uint64(r.val)).val]

GetByID(ID) ==
    LET r == get(blockIDToHeightKey, ID)
    IN IF r.err # Nil THEN [err |-> r.err, val |-> <<>>]
       ELSE getBlock(blockHeightKey, r.val)

getCadenceHeight(evmHeight) ==
    LET r == get(evmHeightToCadenceHeightKey, uint64Bytes(evmHeight))
    IN IF r.err # Nil THEN [err |-> r.err, val |-> 0]
       ELSE [err |-> Nil, val |-> Uint64(r.val)]

GetCadenceHeight(evmHeight) == getCadenceHeight(evmHeight)

LatestCadenceHeight ==
    LET l == getHeight(heightCache, latestEVMHeightKey)
    IN IF l.err # Nil THEN [err |-> l.err, val |-> 0, cache |-> l.cache]
       ELSE [err |-> getCadenceHeight(l.val).err,
             val |-> getCadenceHeight(l.val).val,
             cache |-> l.cache]

\* steps of Blocks.Store that can fail: 1 ToBytes, 2 Hash, 3..5 the three sets,
\* 6 the set of setLastHeight.  failAt = 0: none fails.
StoreSteps == 6
Reached(failAt, step) == failAt = 0 \/ failAt > step

\* a Store that writes the host height where the id index wants the EVM height
StoreDBIdToHostHeight(cadenceHeight, block, failAt) ==
    LET evmHeight == uint64Bytes(block.Height)
        d1 == IF Reached(failAt, 3)
              THEN set(db, blockHeightKey, evmHeight, ToBytes(block)) ELSE db
        d2 == IF Reached(failAt, 4)
              THEN set(d1, blockIDToHeightKey, Hash(block), uint64Bytes(cadenceHeight))
              ELSE d1
        d3 == IF Reached(failAt, 5)
              THEN set(d2, evmHeightToCadenceHeightKey, evmHeight, uint64Bytes(cadenceHeight))
              ELSE d2
    IN  IF Reached(failAt, 6) THEN set(d3, latestEVMHeightKey, <<>>, evmHeight) ELSE d3

\* the store after Blocks.Store, which stops at the first failing step
StoreDB(cadenceHeight, block, failAt) ==
    LET val == ToBytes(block)
        id == Hash(block)
        evmHeight == uint64Bytes(block.Height)
        d1 == IF Reached(failAt, 3) THEN set(db, blockHeightKey, evmHeight, val) ELSE db
        d2 == IF Reached(failAt, 4) THEN set(d1, blockIDToHeightKey, id, evmHeight) ELSE d1
        d3 == IF Reached(failAt, 5)
              THEN set(d2, evmHeightToCadenceHeightKey, evmHeight, uint64Bytes(cadenceHeight))
              ELSE d2
    IN  IF Reached(failAt, 6) THEN set(d3, latestEVMHeightKey, <<>>, evmHeight) ELSE d3

\* the error Blocks.Store returns
StoreErr(failAt) == IF failAt # 0 THEN Internal ELSE Nil

\* a setLastHeight that updates the cache whether or not its write succeeded
StoreCacheBeforeWrite(block, failAt) ==
    IF Reached(failAt, 5)
    THEN [heightCache EXCEPT ![latestEVMHeightKey] = block.Height]
    ELSE heightCache

\* setLastHeight updates the cache only after its write succeeded
StoreCache(block, failAt) ==
    IF Reached(failAt, 6)
    THEN [heightCache EXCEPT ![latestEVMHeightKey] = block.Height]
    ELSE heightCache

Store(cadenceHeight, block, failAt) ==
    /\ nOps < MaxOps
    /\ db' = StoreDB(cadenceHeight, block, failAt)
    /\ heightCache' = StoreCache(block, failAt)
    /\ lastCall' = Call("Store", <<cadenceHeight, block>>, StoreErr(failAt))
    /\ nOps' = nOps + 1
    /\ UNCHANGED <<batch, sporks, mux, pc>>

\* storeInitHeight: the two existence checks return an error only when the read
\* failed with an error other than NotFound; then the two sets (failAt: 1 the
\* first set fails, 2 the second, 0 none)
InitChecksPass ==
    /\ get(firstEVMHeightKey, <<>>).err \in {Nil, NotFound}
    /\ get(latestEVMHeightKey, <<>>).err \in {Nil, NotFound}

storeInitHeight(height, failAt) ==
    IF ~InitChecksPass THEN db
    ELSE LET d1 == IF Reached(failAt, 1)
                   THEN set(db, firstEVMHeightKey, <<>>, uint64Bytes(height)) ELSE db
         IN IF Reached(failAt, 2)
            THEN set(d1, latestEVMHeightKey, <<>>, uint64Bytes(height)) ELSE d1

\* the error storeInitHeight returns
storeInitHeightErr(height, failAt) ==
    IF ~InitChecksPass THEN "existing height can not be overwritten"
    ELSE IF failAt # 0 THEN Internal ELSE Nil

\* NewBlocks(store, WithInitHeight(height)): a fresh handle (empty cache) on the
\* store, then the option
NewBlocksWithInitHeight(height, failAt) ==
    /\ nOps < MaxOps
    /\ db' = storeInitHeight(height, failAt)
    /\ heightCache' = EmptyCache
    /\ lastCall' = Call("InitHeight", <<height>>, storeInitHeightErr(height, failAt))
    /\ nOps' = nOps + 1
    /\ UNCHANGED <<batch, sporks, mux, pc>>

\* NewBlocks(store): a fresh handle on the store, as after a restart
NewBlocks ==
    /\ heightCache # EmptyCache
    /\ heightCache' = EmptyCache
    /\ UNCHANGED <<db, batch, sporks, lastCall, nOps, mux, pc>>

\* reads: only the height cache changes
CallGetByHeight(height) ==
    /\ heightCache' = GetByHeight(height).cache
    /\ UNCHANGED <<db, batch, sporks, lastCall, nOps, mux, pc>>

CallLatestCadenceHeight ==
    /\ heightCache' = LatestCadenceHeight.cache
    /\ UNCHANGED <<db, batch, sporks, lastCall, nOps, mux, pc>>

CallLatestEVMHeight ==
    /\ heightCache' = LatestEVMHeight.cache
    /\ UNCHANGED <<db, batch, sporks, lastCall, nOps, mux, pc>>

CallFirstEVMHeight ==
    /\ heightCache' = FirstEVMHeight.cache
    /\ UNCHANGED <<db, batch, sporks, lastCall, nOps, mux, pc>>

----------------------------------------------------------------------------
(* models.StorageReceipt and its RLP encoding *)

TxHashes == {1, 2}
\* the hash of the block at height h, the bloom and the index of transaction tx
BlockHashOf(h) == 10 + h
BloomOf(tx) == 20 + tx

\* a log as handed to the index: Data is persisted, the other fields are derived
\* (here still unset, or holding the block-wide log index)
NewLog(data, index) ==
    [Data |-> data, BlockHash |-> 0, BlockNumber |-> 0, TxHash |-> 0, TxIndex |-> 0,
     Index |-> index]
LogsOf(tx) == IF tx = 1 THEN <<NewLog(1, 0)>> ELSE <<NewLog(2, 1), NewLog(3, 2)>>

Receipt(tx, h) ==
    [TxHash |-> tx, BlockNumber |-> h, BlockHash |-> BlockHashOf(h),
     TransactionIndex |-> tx - 1, Bloom |-> BloomOf(tx), Logs |-> LogsOf(tx)]

SampleReceipts == {Receipt(tx, h) : tx \in TxHashes, h \in Heights}

\* the receipt lists handed to Receipts.Store: the receipts of a block's
\* transactions, in transaction order
ReceiptLists ==
    {rs \in UNION {[1..n -> SampleReceipts] : n \in 0..Cardinality(TxHashes)} :
        \A i, j \in DOMAIN rs : i < j => rs[i].TransactionIndex < rs[j].TransactionIndex}

\* rlp.EncodeToBytes of a receipt list: the derived log fields are not encoded
EncodeLog(l) == <<l.Data>>
EncodeReceipt(r) ==
    <<r.TxHash, r.BlockNumber, r.BlockHash, r.TransactionIndex, r.Bloom,
      [i \in DOMAIN r.Logs |-> EncodeLog(r.Logs[i])]>>
EncodeReceipts(receipts) == [i \in DOMAIN receipts |-> EncodeReceipt(receipts[i])]

\* rlp.DecodeBytes into receipts: the derived log fields come back zero
DecodeLog(e) ==
    [Data |-> e[1], BlockHash |-> 0, BlockNumber |-> 0, TxHash |-> 0, TxIndex |-> 0,
     Index |-> 0]
DecodeReceipt(e) ==
    [TxHash |-> e[1], BlockNumber |-> e[2], BlockHash |-> e[3],
     TransactionIndex |-> e[4], Bloom |-> e[5],
     Logs |-> [i \in DOMAIN e[6] |-> DecodeLog(e[6][i])]]
DecodeReceipts(val) == [i \in DOMAIN val |-> DecodeReceipt(val[i])]

\* rlp encoding of a bloom list
EncodeBlooms(blooms) == [i \in DOMAIN blooms |-> <<blooms[i]>>]
DecodeBlooms(val) == [i \in DOMAIN val |-> val[i][1]]

\* common.Hash.Bytes of a transaction hash
TxHashBytes(tx) == <<tx>>

----------------------------------------------------------------------------
(* Receipts *)

InvalidArgument == "can't store receipts for multiple heights"
ErrInvalidBlockRange == "ErrInvalidBlockRange"
ErrEntityNotFound == NotFound

\* the "extra safety check" of Receipts.Store
MultipleHeights(height, h) == height # 0 /\ h # height

RECURSIVE StoreLoop(_, _, _, _, _)
\* the loop of Receipts.Store from receipt i on: the height, the writes set so
\* far and the error that ended it.  failAt = i: the set of receipt i fails.
StoreLoop(receipts, i, height, writes, failAt) ==
    IF i > Len(receipts) THEN [err |-> Nil, height |-> height, writes |-> writes]
    ELSE LET h == receipts[i].BlockNumber
         IN IF MultipleHeights(height, h)
            THEN [err |-> InvalidArgument, height |-> height, writes |-> writes]
            ELSE IF failAt = i
            THEN [err |-> Internal, height |-> h, writes |-> writes]
            ELSE StoreLoop(receipts, i + 1, h,
                           Append(writes,
                                  <<makePrefix(receiptTxIDToHeightKey,
                                               TxHashBytes(receipts[i].TxHash)),
                                    uint64Bytes(h)>>),
                           failAt)

\* the blooms collected by the loop, in receipt order
BloomsOf(receipts) == [i \in DOMAIN receipts |-> receipts[i].Bloom]

\* the outcome of Receipts.Store: after the loop, Len+1 encoding the receipts,
\* Len+2 their set, Len+3 encoding the blooms and Len+4 their set can fail
StoreOutcome(receipts, failAt) ==
    LET n == Len(receipts)
        loop == StoreLoop(receipts, 1, 0, <<>>, failAt)
        heightBytes == uint64Bytes(loop.height)
        w1 == Append(loop.writes,
                     <<makePrefix(receiptHeightKey, heightBytes), EncodeReceipts(receipts)>>)
        w2 == Append(w1, <<makePrefix(bloomHeightKey, heightBytes),
                           EncodeBlooms(BloomsOf(receipts))>>)
    IN IF loop.err # Nil THEN [err |-> loop.err, writes |-> loop.writes]
       ELSE IF failAt \in {n + 1, n + 2} THEN [err |-> Internal, writes |-> loop.writes]
       ELSE IF failAt \in {n + 3, n + 4} THEN [err |-> Internal, writes |-> w1]
       ELSE [err |-> Nil, writes |-> w2]

RECURSIVE Apply(_, _)
\* the store after the writes, in order
Apply(d, writes) ==
    IF writes = <<>> THEN d
    ELSE Apply(Put(d, writes[1][1], writes[1][2]), Tail(writes))

\* Receipts.Store(receipts, batch): the writes go to the batch when one is given,
\* else straight to the store
ReceiptsStore(receipts, useBatch, failAt) ==
    /\ nOps < MaxOps
    /\ LET out == StoreOutcome(receipts, failAt)
       IN /\ db' = IF useBatch THEN db ELSE Apply(db, out.writes)
          /\ batch' = IF useBatch THEN batch \o out.writes ELSE batch
          /\ lastCall' = Call("ReceiptsStore", <<receipts, useBatch>>, out.err)
    /\ nOps' = nOps + 1
    /\ UNCHANGED <<heightCache, sporks, mux, pc>>

\* pebble.Batch.Commit by the caller: all writes of the batch at once
Commit ==
    /\ nOps < MaxOps
    /\ batch # <<>>
    /\ db' = Apply(db, batch)
    /\ batch' = <<>>
    /\ lastCall' = Call("Commit", <<lastCall>>, Nil)
    /\ nOps' = nOps + 1
    /\ UNCHANGED <<heightCache, sporks, mux, pc>>

\* the caller drops the batch without committing it
Discard ==
    /\ batch # <<>>
    /\ batch' = <<>>
    /\ lastCall' = Call("Discard", <<>>, Nil)
    /\ UNCHANGED <<db, heightCache, sporks, nOps, mux, pc>>

\* a rehydration that forgets the positional log index
RehydrateWithoutIndex(rcp) ==
    [rcp EXCEPT !.Logs =
        [i \in DOMAIN rcp.Logs |->
            [rcp.Logs[i] EXCEPT !.BlockHash = rcp.BlockHash,
                                !.BlockNumber = rcp.BlockNumber,
                                !.TxHash = rcp.TxHash,
                                !.TxIndex = rcp.TransactionIndex]]]

\* the derived fields of the logs of a decoded receipt
Rehydrate(rcp) ==
    [rcp EXCEPT !.Logs =
        [i \in DOMAIN rcp.Logs |->
            [rcp.Logs[i] EXCEPT !.BlockHash = rcp.BlockHash,
                                !.BlockNumber = rcp.BlockNumber,
                                !.TxHash = rcp.TxHash,
                                !.TxIndex = rcp.TransactionIndex,
                                !.Index = i - 1]]]

getByBlockHeight(height) ==
    LET r == get(receiptHeightKey, height)
    IN IF r.err # Nil THEN [err |-> r.err, val |-> <<>>]
       ELSE [err |-> Nil,
             val |-> [i \in DOMAIN r.val |-> Rehydrate(DecodeReceipts(r.val)[i])]]

GetByBlockHeight(height) == getByBlockHeight(uint64Bytes(height))

\* a lookup that returns the first receipt of the batch without comparing hashes
GetByTransactionIDFirstOfBatch(ID) ==
    LET h == get(receiptTxIDToHeightKey, TxHashBytes(ID))
    IN IF h.err # Nil THEN [err |-> h.err, val |-> <<>>]
       ELSE LET rs == getByBlockHeight(h.val)
            IN IF rs.err # Nil THEN [err |-> rs.err, val |-> <<>>]
               ELSE IF rs.val # <<>> THEN [err |-> Nil, val |-> rs.val[1]]
               ELSE [err |-> ErrEntityNotFound, val |-> <<>>]

GetByTransactionID(ID) ==
    LET h == get(receiptTxIDToHeightKey, TxHashBytes(ID))
    IN IF h.err # Nil THEN [err |-> h.err, val |-> <<>>]
       ELSE LET rs == getByBlockHeight(h.val)
            IN IF rs.err # Nil THEN [err |-> rs.err, val |-> <<>>]
               ELSE IF \E i \in DOMAIN rs.val : rs.val[i].TxHash = ID
               THEN [err |-> Nil,
                     val |-> rs.val[CHOOSE i \in DOMAIN rs.val :
                                        /\ rs.val[i].TxHash = ID
                                        /\ \A j \in 1..(i - 1) : rs.val[j].TxHash # ID]]
               ELSE [err |-> ErrEntityNotFound, val |-> <<>>]

getLast ==
    LET l == get(latestEVMHeightKey, <<>>)
    IN IF l.err # Nil THEN [err |-> l.err, val |-> 0]
       ELSE [err |-> Nil, val |-> Uint64(l.val)]

\* an end check that is off by one
EndBeyondLastOffByOne(end, last) == end > last + 1

\* the three range checks of BloomsForBlockRange
StartAfterEnd(start, end) == start > end
StartBeyondLast(start, last) == start > last
EndBeyondLast(end, last) == end > last

\* the exclusive upper bound of the iterator: end + 1 in the height type
IterUpperBound(end) == uint64Bytes((end + 1) % (MaxUint + 1))

\* the keys an iterator with bounds [lower, upper) visits
IterKeys(code, lower, upper) ==
    {k \in DOMAIN db : k[1] = code /\ ~BytesLess(k[2], lower) /\ BytesLess(k[2], upper)}

RECURSIVE InKeyOrder(_)
\* the keys in the iterator's (byte) order
InKeyOrder(keys) ==
    IF keys = {} THEN <<>>
    ELSE LET k == CHOOSE x \in keys : \A y \in keys \ {x} : BytesLess(x[2], y[2])
         IN <<k>> \o InKeyOrder(keys \ {k})

BloomsForBlockRange(start, end) ==
    IF StartAfterEnd(start, end) THEN [err |-> ErrInvalidBlockRange, val |-> <<>>]
    ELSE IF getLast.err # Nil THEN [err |-> getLast.err, val |-> <<>>]
    ELSE IF StartBeyondLast(start, getLast.val)
    THEN [err |-> ErrInvalidBlockRange, val |-> <<>>]
    ELSE IF EndBeyondLast(end, getLast.val)
    THEN [err |-> ErrInvalidBlockRange, val |-> <<>>]
    ELSE LET visited == InKeyOrder(IterKeys(bloomHeightKey, uint64Bytes(start),
                                            IterUpperBound(end)))
         IN [err |-> Nil,
             val |-> [i \in DOMAIN visited |->
                        [Blooms |-> DecodeBlooms(db[visited[i]]),
                         Height |-> Uint64(visited[i][2])]]]

----------------------------------------------------------------------------
(* The block index alone *)

Init ==
    /\ db = <<>>
    /\ heightCache = EmptyCache
    /\ batch = <<>>
    /\ sporks = <<>>
    /\ lastCall = Call("none", <<>>, Nil)
    /\ nOps = 0
    /\ mux = Unlocked
    /\ pc = [t \in Threads |-> Idle]

Next ==
    \/ \E h \in Heights, f \in 0..2 : NewBlocksWithInitHeight(h, f)
    \/ NewBlocks
    \/ \E c \in CadenceHeights, b \in Blocks, f \in 0..StoreSteps : Store(c, b, f)
    \/ \E h \in Heights : CallGetByHeight(h)
    \/ CallLatestCadenceHeight
    \/ CallLatestEVMHeight
    \/ CallFirstEVMHeight

Spec == Init /\ [][Next]_vars

----------------------------------------------------------------------------
(* The receipt index, with the block index advancing the latest height *)

\* the failures explored: none when the writes go to the (in-memory) batch;
\* without a batch the first set, the set of the receipt list or the set of the
\* bloom list
FailPoints(receipts, useBatch) ==
    IF useBatch THEN {0} ELSE {0, 1, Len(receipts) + 2, Len(receipts) + 4}

NextReceipts ==
    \/ \E h \in Heights : Store(1, [Height |-> h, Tag |-> 1], 0)
    \/ \E rs \in ReceiptLists, b \in BOOLEAN :
          \E f \in FailPoints(rs, b) : ReceiptsStore(rs, b, f)
    \/ Commit
    \/ Discard

SpecReceipts == Init /\ [][NextReceipts]_vars

----------------------------------------------------------------------------
(* Properties of the block index *)

HasKey(code, key) == makePrefix(code, key) \in DOMAIN db
WatermarksSet == HasKey(firstEVMHeightKey, <<>>) /\ HasKey(latestEVMHeightKey, <<>>)
First == Uint64(db[makePrefix(firstEVMHeightKey, <<>>)])
Latest == Uint64(db[makePrefix(latestEVMHeightKey, <<>>)])
PayloadStored(h) == HasKey(blockHeightKey, uint64Bytes(h))

\* C1 as stated: GetByHeight(h) succeeds if and only if first <= h <= latest, and
\* returns NotFound for every h outside that range.
C1_SucceedsIffInRange ==
    \A h \in Heights :
        /\ (GetByHeight(h).err = Nil) <=> (WatermarksSet /\ First <= h /\ h <= Latest)
        /\ (WatermarksSet /\ (h < First \/ h > Latest)) => GetByHeight(h).err = NotFound

\* C1 amended: GetByHeight(h) succeeds if and only if both watermarks are set,
\* first <= h <= latest and a block payload is stored under h, and then returns
\* the decoded payload; with both watermarks set and h outside [first, latest] it
\* returns NotFound even when a payload is stored under h.
C1_SucceedsIffInRangeAndStored ==
    \A h \in Heights :
        /\ (GetByHeight(h).err = Nil)
             <=> (WatermarksSet /\ First <= h /\ h <= Latest /\ PayloadStored(h))
        /\ GetByHeight(h).err = Nil
             => GetByHeight(h).val = NewBlockFromBytes(db[makePrefix(blockHeightKey, uint64Bytes(h))])
        /\ (WatermarksSet /\ (h < First \/ h > Latest)) => GetByHeight(h).err = NotFound

\* a payload is stored under a height outside [first, latest], GetByHeight has
\* run (the cache holds the first height) and answers NotFound for it
C1_Witness ==
    \E h \in Heights :
        /\ WatermarksSet /\ PayloadStored(h) /\ h < First
        /\ heightCache[firstEVMHeightKey] = First
        /\ GetByHeight(h).err = NotFound

\* the keys Blocks.Store writes for a block
StoreKeys(block) ==
    { makePrefix(blockHeightKey, uint64Bytes(block.Height)),
      makePrefix(blockIDToHeightKey, Hash(block)),
      makePrefix(evmHeightToCadenceHeightKey, uint64Bytes(block.Height)),
      makePrefix(latestEVMHeightKey, <<>>) }

SameAt(k) == (k \in DOMAIN db' <=> k \in DOMAIN db) /\ (k \in DOMAIN db => db'[k] = db[k])

\* C2: a Store call that fails makes none of the block's three mappings visible
\* and leaves the latest-height watermark unchanged.
C2_FailedStoreWritesNothing ==
    [][\A c \in CadenceHeights, b \in Blocks, f \in 1..StoreSteps :
          Store(c, b, f) => \A k \in StoreKeys(b) : SameAt(k)]_vars

\* C3: InitHeight on a store whose first or latest watermark is set fails and
\* leaves both watermarks as they were.
C3_InitHeightRejectsSetWatermarks ==
    [][\A h \in Heights, f \in 0..2 :
          (NewBlocksWithInitHeight(h, f)
             /\ (HasKey(firstEVMHeightKey, <<>>) \/ HasKey(latestEVMHeightKey, <<>>)))
          => /\ storeInitHeightErr(h, f) # Nil
             /\ SameAt(makePrefix(firstEVMHeightKey, <<>>))
             /\ SameAt(makePrefix(latestEVMHeightKey, <<>>))]_vars

\* C12: over any sequence of Blocks.Store calls the value LatestEVMHeight returns
\* never decreases, and the persisted first height never changes.
C12_LatestNeverDecreases ==
    [][(lastCall'.op = "Store" /\ nOps' = nOps + 1)
       => /\ LatestEVMHeight.err = Nil
             => (LatestEVMHeight'.err = Nil /\ LatestEVMHeight'.val >= LatestEVMHeight.val)
          /\ SameAt(makePrefix(firstEVMHeightKey, <<>>))]_vars

\* what getHeight returns when it answers from the store
Persisted(keyCode) ==
    IF HasKey(keyCode, <<>>)
    THEN [err |-> Nil, val |-> Uint64(db[makePrefix(keyCode, <<>>)])]
    ELSE [err |-> NotInitialized, val |-> 0]

HeightKeys == {latestEVMHeightKey, firstEVMHeightKey}

\* C16: on one Blocks handle, after any sequence of InitHeight, Store and reads,
\* a cached height equals the persisted one, LatestEVMHeight and FirstEVMHeight
\* return exactly what is persisted under their keys, and a Store that fails
\* leaves the cache unchanged.
C16_CacheCoherent ==
    /\ [](\A k \in HeightKeys :
            /\ heightCache[k] # 0 => Persisted(k) = [err |-> Nil, val |-> heightCache[k]]
            /\ getHeight(heightCache, k).err = Persisted(k).err
            /\ getHeight(heightCache, k).val = Persisted(k).val)
    /\ [][(lastCall'.op = "Store" /\ nOps' = nOps + 1 /\ lastCall'.err # Nil)
          => heightCache' = heightCache]_vars

\* the cache holds the latest height of an earlier Store, and a Store of a block
\* at another height failed: the cache still holds the persisted height
C16_Witness ==
    /\ lastCall.op = "Store" /\ lastCall.err # Nil
    /\ heightCache[latestEVMHeightKey] # 0
    /\ heightCache[latestEVMHeightKey] # lastCall.arg[2].Height
    /\ PayloadStored(lastCall.arg[2].Height)
    /\ LatestEVMHeight.val = Latest

\* once both watermarks are written they stay written
WatermarksStaySet == [][WatermarksSet => WatermarksSet']_vars

\* C19 as stated: while the first-height or the latest-height watermark is not
\* written, FirstEVMHeight, LatestEVMHeight and GetByHeight(h) for every h return
\* NotInitialized; once both are written none of them returns it again.
C19_NotInitializedUntilBootstrapped ==
    /\ [](IF WatermarksSet
          THEN /\ FirstEVMHeight.err # NotInitialized
               /\ LatestEVMHeight.err # NotInitialized
               /\ \A h \in Heights : GetByHeight(h).err # NotInitialized
          ELSE /\ FirstEVMHeight.err = NotInitialized
               /\ LatestEVMHeight.err = NotInitialized
               /\ \A h \in Heights : GetByHeight(h).err = NotInitialized)
    /\ WatermarksStaySet

\* C19 amended: FirstEVMHeight returns NotInitialized exactly while the
\* first-height watermark is not written, LatestEVMHeight exactly while the
\* latest-height watermark is not written, and GetByHeight(h), for every h,
\* exactly while one of the two is not written; once both are written they stay
\* written.
C19_NotInitializedPerWatermark ==
    /\ []( /\ FirstEVMHeight.err = NotInitialized <=> ~HasKey(firstEVMHeightKey, <<>>)
           /\ LatestEVMHeight.err = NotInitialized <=> ~HasKey(latestEVMHeightKey, <<>>)
           /\ \A h \in Heights : GetByHeight(h).err = NotInitialized <=> ~WatermarksSet)
    /\ WatermarksStaySet

\* a block was stored on a store without InitHeight: the latest height is
\* returned, the first height and GetByHeight are NotInitialized
C19_Witness ==
    /\ lastCall.op = "Store" /\ lastCall.err = Nil
    /\ ~HasKey(firstEVMHeightKey, <<>>)
    /\ LatestEVMHeight = [err |-> Nil, val |-> lastCall.arg[2].Height, cache |-> heightCache]
    /\ FirstEVMHeight.err = NotInitialized
    /\ GetByHeight(lastCall.arg[2].Height).err = NotInitialized

\* the id index maps the id to a height with a stored payload
IdResolves(ID) ==
    /\ HasKey(blockIDToHeightKey, ID)
    /\ HasKey(blockHeightKey, db[makePrefix(blockIDToHeightKey, ID)])
IdHeight(ID) == Uint64(db[makePrefix(blockIDToHeightKey, ID)])

\* C20: GetByID(id) returns the block stored under the height the id index gives
\* for id, whether or not that height lies in [first, latest], and returns
\* NotFound exactly when the id has no index entry or no payload is stored under
\* the indexed height.
C20_GetByIDIgnoresWatermarks ==
    \A b \in Blocks :
        IF IdResolves(Hash(b))
        THEN GetByID(Hash(b)) =
                [err |-> Nil,
                 val |-> NewBlockFromBytes(
                            db[makePrefix(blockHeightKey, uint64Bytes(IdHeight(Hash(b))))])]
        ELSE GetByID(Hash(b)).err = NotFound

\* a block below the first height: GetByHeight answers NotFound, GetByID
\* returns the block
C20_Witness ==
    \E b \in Blocks :
        /\ WatermarksSet /\ b.Height < First
        /\ GetByHeight(b.Height).err = NotFound
        /\ GetByID(Hash(b)) = [err |-> Nil, val |-> b]

\* what the reads return for block b stored with host height c
ReadsBack(c, b) ==
    /\ GetByID(Hash(b)) = [err |-> Nil, val |-> b]
    /\ GetCadenceHeight(b.Height) = [err |-> Nil, val |-> c]
    /\ LatestCadenceHeight.err = Nil /\ LatestCadenceHeight.val = c
ReadsBackByHeight(b) ==
    GetByHeight(b.Height).err = Nil /\ GetByHeight(b.Height).val = b

\* C6 as stated: after every successful Store(c, B) the block reads back by
\* height and by id, and the host height by GetCadenceHeight and LatestCadenceHeight.
C6_RoundTrip ==
    (lastCall.op = "Store" /\ lastCall.err = Nil)
    => (ReadsBack(lastCall.arg[1], lastCall.arg[2]) /\ ReadsBackByHeight(lastCall.arg[2]))

\* C6 amended: after every successful Store(c, B), GetByID(hash(B)) returns B,
\* GetCadenceHeight(B.Height) and LatestCadenceHeight return c; GetByHeight(B.Height)
\* returns B when the first-height watermark is set and first <= B.Height, returns
\* NotInitialized when it is not set and NotFound when B.Height < first.
C6_RoundTripWithinWatermark ==
    (lastCall.op = "Store" /\ lastCall.err = Nil)
    => LET c == lastCall.arg[1]
           b == lastCall.arg[2]
       IN /\ ReadsBack(c, b)
          /\ (HasKey(firstEVMHeightKey, <<>>) /\ First <= b.Height) => ReadsBackByHeight(b)
          /\ ~HasKey(firstEVMHeightKey, <<>>) => GetByHeight(b.Height).err = NotInitialized
          /\ (HasKey(firstEVMHeightKey, <<>>) /\ b.Height < First)
                => GetByHeight(b.Height).err = NotFound

\* a block stored above the first height reads back by height, id and host height
C6_Witness ==
    \E c \in CadenceHeights, b \in Blocks :
        /\ lastCall = Call("Store", <<c, b>>, Nil)
        /\ WatermarksSet /\ First < b.Height /\ Latest = b.Height
        /\ ReadsBack(c, b) /\ ReadsBackByHeight(b)

----------------------------------------------------------------------------
(* CrossSporkClient: the cross-spork router *)

\* the current endpoint and the endpoints of past sporks
CurrentHost == "test1.com"
SporkHosts == {"test2.com", "test3.com"}

DuplicateHeight == "provided last height already exists"

\* the boundary (lastHeight, host) put at its place in the ascending order
InsertSorted(boundaries, lastHeight, host) ==
    LET below == SelectSeq(boundaries, LAMBDA b : b.lastHeight < lastHeight)
        above == SelectSeq(boundaries, LAMBDA b : b.lastHeight > lastHeight)
    IN below \o <<[lastHeight |-> lastHeight, host |-> host]>> \o above

\* an AddSpork that never looks for an existing boundary
AddSporkNoCheck(lastHeight) == Nil

\* the duplicate check of AddSpork
AddSporkErr(lastHeight) ==
    IF \E i \in DOMAIN sporks : sporks[i].lastHeight = lastHeight
    THEN DuplicateHeight ELSE Nil

AddSpork(lastHeight, host) ==
    /\ nOps < MaxOps
    /\ sporks' = IF AddSporkErr(lastHeight) # Nil THEN sporks
                  ELSE InsertSorted(sporks, lastHeight, host)
    /\ lastCall' = Call("AddSpork", <<lastHeight, host>>, AddSporkErr(lastHeight))
    /\ nOps' = nOps + 1
    /\ UNCHANGED <<db, heightCache, batch, mux, pc>>

\* a boundary that does not serve its own last height
ServesBelowOnly(lastHeight, height) == lastHeight > height

\* a boundary serves the heights up to and including its last height
Serves(lastHeight, height) == lastHeight >= height

\* the endpoint of the first boundary, in order, that serves the height, else
\* the current endpoint
getClientForHeight(height) ==
    IF \E i \in DOMAIN sporks : Serves(sporks[i].lastHeight, height)
    THEN sporks[CHOOSE i \in DOMAIN sporks :
                    /\ Serves(sporks[i].lastHeight, height)
                    /\ \A j \in 1..(i - 1) : ~Serves(sporks[j].lastHeight, height)].host
    ELSE CurrentHost

\* GetBlockHeaderByHeight: forwarded to the client of the height, whose error
\* names its host
GetBlockHeaderByHeight(height) ==
    /\ lastCall' = Call("GetBlockHeaderByHeight", <<height>>, getClientForHeight(height))
    /\ UNCHANGED <<db, heightCache, batch, sporks, nOps, mux, pc>>

NextRouter ==
    \/ \E h \in Heights, host \in SporkHosts : AddSpork(h, host)
    \/ \E h \in Heights : GetBlockHeaderByHeight(h)

SpecRouter == Init /\ [][NextRouter]_vars

\* the registered boundaries at or above a height
AtOrAbove(height) == {i \in DOMAIN sporks : sporks[i].lastHeight >= height}

\* the endpoint of the boundary with the smallest lastHeight >= height, the
\* current endpoint when there is none
NearestEndpoint(height) ==
    IF AtOrAbove(height) = {} THEN CurrentHost
    ELSE sporks[CHOOSE i \in AtOrAbove(height) :
                    \A j \in AtOrAbove(height) :
                        sporks[i].lastHeight <= sporks[j].lastHeight].host

C11_DuplicateBoundaryRejected ==
    /\ [](\A i, j \in DOMAIN sporks :
            sporks[i].lastHeight = sporks[j].lastHeight => i = j)
    /\ [][(/\ lastCall'.op = "AddSpork"
           /\ nOps' = nOps + 1
           /\ \E i \in DOMAIN sporks : sporks[i].lastHeight = lastCall'.arg[1])
          => (lastCall'.err = DuplicateHeight /\ sporks' = sporks)]_vars

\* a boundary is registered and an AddSpork with its lastHeight and another
\* endpoint was refused
C11_Witness ==
    /\ Len(sporks) = 1
    /\ lastCall.op = "AddSpork"
    /\ lastCall.arg[1] = sporks[1].lastHeight
    /\ lastCall.arg[2] # sporks[1].host
    /\ lastCall.err = DuplicateHeight

----------------------------------------------------------------------------
(* Properties of the receipt index *)

LatestSet == HasKey(latestEVMHeightKey, <<>>)
ReceiptsStored(h) == HasKey(receiptHeightKey, uint64Bytes(h))
BloomsStored(h) == HasKey(bloomHeightKey, uint64Bytes(h))

\* C4: for every height, the block (or the latest-height watermark at it) is
\* visible exactly when the receipt list and the bloom list of that height are.
C4_IngestionAtomic ==
    \A h \in Heights :
        (PayloadStored(h) \/ (LatestSet /\ Latest = h))
        <=> (ReceiptsStored(h) /\ BloomsStored(h))

DifferentHeights(receipts) ==
    \E i, j \in DOMAIN receipts : receipts[i].BlockNumber # receipts[j].BlockNumber
ListCodes == {receiptHeightKey, bloomHeightKey}
NoListWritten ==
    /\ \A k \in DOMAIN db' : k[1] \in ListCodes => (k \in DOMAIN db /\ db'[k] = db[k])
    /\ \A i \in (Len(batch) + 1)..Len(batch') : batch'[i][1][1] \notin ListCodes

\* C5: every Receipts.Store of a list with two different block numbers returns
\* the invalid-argument error (unless a storage fault ended it first) and writes
\* no receipt list and no bloom list.
C5_RejectsDifferentHeights ==
    [][(/\ nOps' = nOps + 1
        /\ lastCall'.op = "ReceiptsStore"
        /\ DifferentHeights(lastCall'.arg[1])
        /\ lastCall'.err # Internal)
       => (lastCall'.err = InvalidArgument /\ NoListWritten)]_vars

\* the indexes whose entries are created once per height
AppendOnlyCodes == {blockHeightKey, receiptHeightKey, bloomHeightKey}

\* C13: once a block payload, a receipt list or a bloom list is stored for a
\* height, no later Blocks.Store or Receipts.Store changes or removes it.
C13_EntriesAppendOnly ==
    [][\A k \in DOMAIN db :
          k[1] \in AppendOnlyCodes => (k \in DOMAIN db' /\ db'[k] = db[k])]_vars

ValidBounds(start, end) == LatestSet /\ start <= end /\ end <= Latest
HeightsOf(val) == [i \in DOMAIN val |-> val[i].Height]

\* C7 as stated: with valid bounds BloomsForBlockRange returns one bloom list
\* for each height of [start, end], in ascending order.
C7_OneBloomListPerHeight ==
    \A start, end \in Heights :
        ValidBounds(start, end) =>
            /\ BloomsForBlockRange(start, end).err = Nil
            /\ HeightsOf(BloomsForBlockRange(start, end).val)
                 = [i \in 1..(end - start + 1) |-> start + i - 1]

\* What the range scan does return with valid bounds: in strictly ascending
\* height order, the stored bloom list of exactly those heights of [start, end]
\* under which a bloom list is stored; heights without one are left out, and
\* when end is the largest height value nothing is returned.
StoredBloomListsInRange ==
    \A start, end \in Heights :
        ValidBounds(start, end) =>
            LET r == BloomsForBlockRange(start, end)
            IN /\ r.err = Nil
               /\ \A i \in DOMAIN r.val :
                    /\ start <= r.val[i].Height /\ r.val[i].Height <= end
                    /\ BloomsStored(r.val[i].Height)
                    /\ r.val[i].Blooms
                         = DecodeBlooms(db[makePrefix(bloomHeightKey,
                                                      uint64Bytes(r.val[i].Height))])
                    /\ \A j \in DOMAIN r.val : i < j => r.val[i].Height < r.val[j].Height
               /\ end < MaxUint =>
                    \A h \in start..end :
                        BloomsStored(h) => \E i \in DOMAIN r.val : r.val[i].Height = h
               /\ end = MaxUint => r.val = <<>>

\* C8: BloomsForBlockRange returns the range error and no bloom list whenever
\* start > end, start > latest or end > latest, and never returns the range
\* error when start <= end <= latest.
C8_RangeErrorIffOutOfBounds ==
    \A start, end \in Heights :
        LET r == BloomsForBlockRange(start, end)
        IN /\ (start > end \/ (LatestSet /\ (start > Latest \/ end > Latest)))
                => (r.err = ErrInvalidBlockRange /\ r.val = <<>>)
           /\ ValidBounds(start, end) => r.err # ErrInvalidBlockRange

\* the latest height is set below the largest height: a range ending above it
\* is refused and a range ending at it is not
C8_Witness ==
    /\ LatestSet /\ 0 < Latest /\ Latest < MaxUint
    /\ BloomsForBlockRange(0, Latest + 1).err = ErrInvalidBlockRange
    /\ BloomsForBlockRange(Latest, 0).err = ErrInvalidBlockRange
    /\ BloomsForBlockRange(0, Latest).err = Nil

\* the height Receipts.Store keys a list under
StoreHeight(receipts) ==
    IF receipts = <<>> THEN 0 ELSE receipts[Len(receipts)].BlockNumber

\* ret holds the receipts of rs in the same order, each log with the derived
\* fields of its receipt and its position
SameReceiptsDerivedLogs(ret, rs) ==
    /\ Len(ret) = Len(rs)
    /\ \A i \in DOMAIN rs :
        /\ ret[i].TxHash = rs[i].TxHash
        /\ ret[i].BlockNumber = rs[i].BlockNumber
        /\ ret[i].BlockHash = rs[i].BlockHash
        /\ ret[i].TransactionIndex = rs[i].TransactionIndex
        /\ ret[i].Bloom = rs[i].Bloom
        /\ Len(ret[i].Logs) = Len(rs[i].Logs)
        /\ \A j \in DOMAIN rs[i].Logs :
            ret[i].Logs[j] =
                [Data |-> rs[i].Logs[j].Data,
                 BlockHash |-> rs[i].BlockHash,
                 BlockNumber |-> rs[i].BlockNumber,
                 TxHash |-> rs[i].TxHash,
                 TxIndex |-> rs[i].TransactionIndex,
                 Index |-> j - 1]

ReadsBackReceipts(rs) ==
    /\ GetByBlockHeight(StoreHeight(rs)).err = Nil
    /\ SameReceiptsDerivedLogs(GetByBlockHeight(StoreHeight(rs)).val, rs)

\* C9 as stated: after every successful Receipts.Store of a list,
\* GetByBlockHeight of its height returns the same receipts, in order, with the
\* derived log fields of the owning receipt.
C9_ReceiptsRoundTrip ==
    (lastCall.op = "ReceiptsStore" /\ lastCall.err = Nil)
    => ReadsBackReceipts(lastCall.arg[1])

\* C9 amended: the same, once the writes are committed: after a successful
\* Receipts.Store without a batch, and after the commit of the batch that a
\* successful Receipts.Store last wrote to.
C9_CommittedReceiptsRoundTrip ==
    /\ (lastCall.op = "ReceiptsStore" /\ lastCall.err = Nil /\ ~lastCall.arg[2])
        => ReadsBackReceipts(lastCall.arg[1])
    /\ (/\ lastCall.op = "Commit"
        /\ lastCall.arg[1].op = "ReceiptsStore"
        /\ lastCall.arg[1].err = Nil
        /\ lastCall.arg[1].arg[2])
        => ReadsBackReceipts(lastCall.arg[1].arg[1])

\* a list of two receipts with logs was stored to a batch, the batch was
\* committed and the list reads back
C9_Witness ==
    /\ lastCall.op = "Commit"
    /\ lastCall.arg[1].op = "ReceiptsStore"
    /\ lastCall.arg[1].err = Nil
    /\ lastCall.arg[1].arg[2]
    /\ Len(lastCall.arg[1].arg[1]) = 2
    /\ StoreHeight(lastCall.arg[1].arg[1]) > 0
    /\ ReadsBackReceipts(lastCall.arg[1].arg[1])

----------------------------------------------------------------------------
(* Concurrent callers of one Blocks handle: every lock operation and every  *)
(* access to the height cache is a step of its own                          *)

\* the store after NewBlocks(store, WithInitHeight(height)) on an empty store
InitialisedStore(height) ==
    set(set(<<>>, firstEVMHeightKey, <<>>, uint64Bytes(height)),
        latestEVMHeightKey, <<>>, uint64Bytes(height))

InitLocks ==
    /\ \E h \in Heights : db = InitialisedStore(h)
    /\ heightCache = EmptyCache
    /\ batch = <<>>
    /\ sporks = <<>>
    /\ lastCall = Call("none", <<>>, Nil)
    /\ nOps = 0
    /\ mux = Unlocked
    /\ pc = [t \in Threads |-> Idle]

At(t, loc) == pc[t].at = loc
Goto(t, loc) == [pc EXCEPT ![t].at = loc]

\* a caller enters a call; nOps bounds the calls made
Begin(t, op, loc, key, arg) ==
    /\ At(t, "idle")
    /\ nOps < MaxOps
    /\ pc' = [pc EXCEPT ![t] = [Idle EXCEPT !.at = loc, !.op = op, !.key = key, !.arg = arg]]
    /\ nOps' = nOps + 1
    /\ UNCHANGED <<db, heightCache, batch, sporks, lastCall, mux>>

StartGetByHeight(t) == Begin(t, "GetByHeight", "GetByHeight.RLock", "none", <<>>)
StartLatestCadenceHeight(t) ==
    Begin(t, "LatestCadenceHeight", "LatestCadenceHeight.RLock", "none", <<>>)
\* LatestEVMHeight takes no lock of its own: it is getHeight(latestEVMHeightKey)
StartLatestEVMHeight(t) ==
    Begin(t, "LatestEVMHeight", "getHeight.RLock", latestEVMHeightKey, <<>>)
StartStore(t, cadenceHeight, block) ==
    Begin(t, "Store", "Store.Lock", "none", <<cadenceHeight, block>>)

\* RWMutex.RLock returns only while no writer holds the lock or waits for it
CanRLock == mux.writer = 0 /\ mux.pending = {}

\* b.mux.RLock() of GetByHeight and of LatestCadenceHeight, then the call of
\* getHeight for the first key it reads
OuterRLock(t) ==
    /\ At(t, "GetByHeight.RLock") \/ At(t, "LatestCadenceHeight.RLock")
    /\ CanRLock
    /\ mux' = [mux EXCEPT !.readers = @ + 1]
    /\ pc' = [pc EXCEPT ![t].at = "getHeight.RLock",
                        ![t].key = IF pc[t].op = "GetByHeight"
                                   THEN firstEVMHeightKey ELSE latestEVMHeightKey]
    /\ UNCHANGED <<db, heightCache, batch, sporks, lastCall, nOps>>

\* b.mux.RLock() of getHeight
getHeightRLock(t) ==
    /\ At(t, "getHeight.RLock")
    /\ CanRLock
    /\ mux' = [mux EXCEPT !.readers = @ + 1]
    /\ pc' = Goto(t, "getHeight.read")
    /\ UNCHANGED <<db, heightCache, batch, sporks, lastCall, nOps>>

\* getHeight, the cache lookup and, on a miss, the read of the store: a hit or
\* a missing key ends the call, else the height read is about to be cached
getHeightRead(t) ==
    /\ At(t, "getHeight.read")
    /\ LET r == getHeight(heightCache, pc[t].key)
       IN pc' = IF heightCache[pc[t].key] # 0 \/ r.err # Nil
                THEN [pc EXCEPT ![t].at = "getHeight.RUnlock", ![t].err = r.err]
                ELSE [pc EXCEPT ![t].at = "getHeight.write", ![t].val = r.val]
    /\ UNCHANGED <<db, heightCache, batch, sporks, lastCall, nOps, mux>>

\* callers about to read or write the height cache
AccessesCache(t) == At(t, "getHeight.read") \/ At(t, "getHeight.write") \/ At(t, "Store.body")
WritesCache(t) == At(t, "getHeight.write") \/ At(t, "Store.body")
Races(t) == WritesCache(t) /\ \E u \in Threads \ {t} : AccessesCache(u)

\* b.heightCache[keyCode] = h of getHeight
getHeightWrite(t) ==
    /\ At(t, "getHeight.write")
    /\ heightCache' = [heightCache EXCEPT ![pc[t].key] = pc[t].val]
    /\ pc' = Goto(t, "getHeight.RUnlock")
    /\ UNCHANGED <<db, batch, sporks, lastCall, nOps, mux>>

\* a write to the map concurrent with another access may instead end the process
\* ("fatal error: concurrent map writes")
FatalRace(t) ==
    /\ Races(t)
    /\ pc' = [u \in Threads |-> [pc[u] EXCEPT !.at = "fatal"]]
    /\ UNCHANGED <<db, heightCache, batch, sporks, lastCall, nOps, mux>>

\* the deferred RUnlock of getHeight and the return to the caller: GetByHeight
\* goes on to the latest height unless the first one failed
getHeightRUnlock(t) ==
    /\ At(t, "getHeight.RUnlock")
    /\ mux' = [mux EXCEPT !.readers = @ - 1]
    /\ pc' = IF pc[t].op = "LatestEVMHeight" THEN [pc EXCEPT ![t] = Idle]
             ELSE IF pc[t].op = "LatestCadenceHeight"
             THEN Goto(t, "LatestCadenceHeight.RUnlock")
             ELSE IF pc[t].key = firstEVMHeightKey /\ pc[t].err = Nil
             THEN [pc EXCEPT ![t].at = "getHeight.RLock", ![t].key = latestEVMHeightKey]
             ELSE Goto(t, "GetByHeight.RUnlock")
    /\ UNCHANGED <<db, heightCache, batch, sporks, lastCall, nOps>>

\* the rest of GetByHeight and LatestCadenceHeight reads the store only; then
\* the deferred RUnlock
OuterRUnlock(t) ==
    /\ At(t, "GetByHeight.RUnlock") \/ At(t, "LatestCadenceHeight.RUnlock")
    /\ mux' = [mux EXCEPT !.readers = @ - 1]
    /\ pc' = [pc EXCEPT ![t] = Idle]
    /\ UNCHANGED <<db, heightCache, batch, sporks, lastCall, nOps>>

\* b.mux.Lock() of Store: the writer announces itself, which keeps new readers
\* out, and gets the lock once no reader and no writer holds it
StoreLockAnnounce(t) ==
    /\ At(t, "Store.Lock")
    /\ mux' = [mux EXCEPT !.pending = @ \cup {t}]
    /\ pc' = Goto(t, "Store.LockWait")
    /\ UNCHANGED <<db, heightCache, batch, sporks, lastCall, nOps>>

StoreLockAcquire(t) ==
    /\ At(t, "Store.LockWait")
    /\ mux.readers = 0 /\ mux.writer = 0
    /\ mux' = [mux EXCEPT !.pending = @ \ {t}, !.writer = t]
    /\ pc' = Goto(t, "Store.body")
    /\ UNCHANGED <<db, heightCache, batch, sporks, lastCall, nOps>>

\* the body of Store under the write lock: the sets and setLastHeight
StoreBody(t) ==
    /\ At(t, "Store.body")
    /\ db' = StoreDB(pc[t].arg[1], pc[t].arg[2], 0)
    /\ heightCache' = StoreCache(pc[t].arg[2], 0)
    /\ lastCall' = Call("Store", pc[t].arg, StoreErr(0))
    /\ pc' = Goto(t, "Store.Unlock")
    /\ UNCHANGED <<batch, sporks, nOps, mux>>

StoreUnlock(t) ==
    /\ At(t, "Store.Unlock")
    /\ mux' = [mux EXCEPT !.writer = 0]
    /\ pc' = [pc EXCEPT ![t] = Idle]
    /\ UNCHANGED <<db, heightCache, batch, sporks, lastCall, nOps>>

\* the steps of a caller inside a call
Step(t) ==
    \/ OuterRLock(t)
    \/ getHeightRLock(t)
    \/ getHeightRead(t)
    \/ getHeightWrite(t)
    \/ getHeightRUnlock(t)
    \/ OuterRUnlock(t)
    \/ StoreLockAnnounce(t)
    \/ StoreLockAcquire(t)
    \/ StoreBody(t)
    \/ StoreUnlock(t)

NextLocks ==
    \/ \E t \in Threads : StartGetByHeight(t)
    \/ \E t \in Threads : StartLatestCadenceHeight(t)
    \/ \E t \in Threads : StartLatestEVMHeight(t)
    \/ \E t \in Threads, h \in Heights : StartStore(t, 1, [Height |-> h, Tag |-> 1])
    \/ \E t \in Threads : Step(t)
    \/ \E t \in Threads : FatalRace(t)

\* a goroutine that can run is eventually run
SpecLocks == InitLocks /\ [][NextLocks]_vars /\ \A t \in Threads : WF_vars(Step(t))

\* C14: every call of GetByHeight, LatestCadenceHeight, LatestEVMHeight and
\* Store eventually returns (or the process ends), in every interleaving.
C14_EveryCallReturns ==
    \A t \in Threads : (pc[t].at # "idle") ~> (pc[t].at \in {"idle", "fatal"})

\* C15: no caller is about to write the height cache while another caller is
\* about to read or write it.
C15_CacheWritesExclusive == \A t \in Threads : ~Races(t)

----------------------------------------------------------------------------
(* Lookup of receipts by transaction *)

\* the receipt list stored under height h
StoredList(h) == DecodeReceipts(db[makePrefix(receiptHeightKey, uint64Bytes(h))])
InStoredList(tx, h) ==
    ReceiptsStored(h) /\ \E i \in DOMAIN StoredList(h) : StoredList(h)[i].TxHash = tx
\* the tx index maps tx to a height
Indexed(tx) == HasKey(receiptTxIDToHeightKey, TxHashBytes(tx))
IndexedHeight(tx) == Uint64(db[makePrefix(receiptTxIDToHeightKey, TxHashBytes(tx))])

\* GetByTransactionID(r.TxHash) returns r with the derived log fields
FindsReceipt(r) ==
    /\ GetByTransactionID(r.TxHash).err = Nil
    /\ SameReceiptsDerivedLogs(<<GetByTransactionID(r.TxHash).val>>, <<r>>)

\* a hash no stored list holds, or one indexed to a height whose list lacks it,
\* is not found
AbsentNotFound ==
    \A tx \in TxHashes :
        /\ (\A h \in Heights : ~InStoredList(tx, h)) => GetByTransactionID(tx).err = NotFound
        /\ (Indexed(tx) /\ ~InStoredList(tx, IndexedHeight(tx)))
              => GetByTransactionID(tx).err = NotFound

\* C17 as stated: after a successful Receipts.Store of a list, every receipt of
\* the list is returned by GetByTransactionID of its hash; a hash in no stored
\* list, or indexed to a height whose list lacks it, is not found.
C17_FindsEveryStoredReceipt ==
    /\ (lastCall.op = "ReceiptsStore" /\ lastCall.err = Nil)
         => \A i \in DOMAIN lastCall.arg[1] : FindsReceipt(lastCall.arg[1][i])
    /\ AbsentNotFound

\* the receipts of the list whose block number is the height the list is stored
\* under are found, the others are looked for under their own block number
FindsReceiptsAtStoreHeight(rs) ==
    \A i \in DOMAIN rs :
        /\ Indexed(rs[i].TxHash) /\ IndexedHeight(rs[i].TxHash) = rs[i].BlockNumber
        /\ rs[i].BlockNumber = StoreHeight(rs) => FindsReceipt(rs[i])

\* C17 amended: once the writes of a successful Receipts.Store are committed (no
\* batch, or its batch committed), every receipt of the list whose BlockNumber is
\* the height the list is stored under is returned by GetByTransactionID of its
\* hash; in every state GetByTransactionID(id) succeeds exactly when the tx index
\* maps id to a height whose stored list holds id, and is NotFound otherwise.
C17_FindsCommittedReceiptsOfStoreHeight ==
    /\ (lastCall.op = "ReceiptsStore" /\ lastCall.err = Nil /\ ~lastCall.arg[2])
         => FindsReceiptsAtStoreHeight(lastCall.arg[1])
    /\ (/\ lastCall.op = "Commit"
        /\ lastCall.arg[1].op = "ReceiptsStore"
        /\ lastCall.arg[1].err = Nil
        /\ lastCall.arg[1].arg[2])
         => FindsReceiptsAtStoreHeight(lastCall.arg[1].arg[1])
    /\ \A tx \in TxHashes :
         IF Indexed(tx) /\ InStoredList(tx, IndexedHeight(tx))
         THEN GetByTransactionID(tx).err = Nil /\ GetByTransactionID(tx).val.TxHash = tx
         ELSE GetByTransactionID(tx).err = NotFound
    /\ AbsentNotFound

\* a list stored over another one of the same height: its receipt is found, the
\* receipt of the replaced list is indexed to that height and no longer found
C17_Witness ==
    /\ lastCall.op = "ReceiptsStore" /\ lastCall.err = Nil /\ ~lastCall.arg[2]
    /\ Len(lastCall.arg[1]) = 1
    /\ FindsReceipt(lastCall.arg[1][1])
    /\ \E tx \in TxHashes :
         /\ Indexed(tx) /\ IndexedHeight(tx) = StoreHeight(lastCall.arg[1])
         /\ ~InStoredList(tx, IndexedHeight(tx))
         /\ GetByTransactionID(tx).err = NotFound

----------------------------------------------------------------------------
(* Alignment of the bloom index with the receipt index *)

\* the bloom list stored under height h
StoredBlooms(h) == DecodeBlooms(db[makePrefix(bloomHeightKey, uint64Bytes(h))])

\* C18: in every reachable state, every height with a stored receipt list has a
\* stored bloom list of the same length whose i-th bloom is the Bloom of the
\* i-th receipt.
C18_BloomsAlignedWithReceipts ==
    \A h \in Heights :
        ReceiptsStored(h) =>
            /\ BloomsStored(h)
            /\ StoredBlooms(h) = BloomsOf(StoredList(h))

====
